---- MODULE Spec2Model ----
(***************************************************************************)
(* Model of the callbacks dispatcher of package app (src/unnamed/part_000). *)
(*                                                                         *)
(* The dispatcher runs on one thread.  Its reentrancy is modelled by a     *)
(* call stack: a frame is pushed when Event starts a drain loop and the    *)
(* window's ProcessEvent, while it runs, may call Event again.              *)
(* The window and the driver are collaborators: their calls are recorded   *)
(* in the history variable calls, in the order the code makes them.        *)
(***************************************************************************)
EXTENDS Integers, Sequences, FiniteSets, TLC

\* ---------------------------------------------------------------- bounds
\* Events submitted in one dispatch cycle (the triggering event included).
MaxSubmit == 3
\* Options in one pending batch.
MaxOpts == 2
\* Largest Decorations.Height of the window.
MaxHeight == 1
\* Largest rune offset of a key.Range.
MaxPos == 1
\* Runes in the text of an edit.
MaxText == 1
\* Editor callbacks called from inside ProcessEvent during one call from outside.
MaxNested == 1
\* Edits (calls of ImeState.Replace) during one call from outside.
MaxEdits == 1
\* Nodes of a semantic tree.
MaxTree == 2
\* Entries of the accumulator a caller hands to AppendSemanticDiffs.
MaxDiffs == 2
\* Capacity of the window's hand-off channels (WakeupFuncs, Options, Actions).
ChanCap == 1

\* ---------------------------------------------------------------- values
Nil == "nil"
Drivers == {"d1"}
\* An event is written <<type>> followed by its fields.
NoEvent == <<"none">>
WakeupEvent == <<"WakeupEvent">>
KeyEvent == <<"KeyEvent">>
Events == {WakeupEvent, KeyEvent}
\* A system.Action batch is a bit mask, written <<"Action", mask>>.
ActionSet == {<<"Action", 1>>}

\* An option is a mutator of a Config, written <<field, value>>.
DecoHeightOpt(h) == <<"DecoHeight", h>>
OptionSet == {<<"Decorated", 0>>, <<"Decorated", 1>>, <<"Title", 1>>}

SeqsUpTo(S, n) == UNION {[1..k -> S] : k \in 0..n}
OptionBatches == SeqsUpTo(OptionSet, MaxOpts)
\* The batches of a single option.
ShortBatches == {<<o>> : o \in OptionSet}

VARIABLES
    d,            \* callbacks.d: the bound driver, or Nil
    busy,         \* callbacks.busy
    waitEvents,   \* callbacks.waitEvents
    stack,        \* the active Event calls that run a drain loop, outermost first
    panicked,     \* an Event call panicked
    result,       \* value returned by the Event call that returned last
    cnf,          \* the local cnf of the last configuration fold
    wakeupFuncs,  \* Window.WakeupFuncs
    sending,      \* the wake-up function SetDriver is about to send, or NoSend
    destroy,      \* Window.Destroy is ready to be received from
    options,      \* Window.Options
    actions,      \* Window.Actions
    decoEnabled,  \* Window.Decorations.Enabled
    decoHeight,   \* Window.Decorations.Height
    submitted,    \* history: events appended to waitEvents in this cycle
    calls,        \* history: collaborator calls and channel polls of this cycle
    drains,       \* history: drain loops entered and not yet left
    teardownAt,   \* history: events processed when Destroy became ready in this drain
    imeState,     \* Window.ImeState: the Selection, Compose and Snippet ranges
    ime,          \* the editor callback running outside a drain, and its locals
    ins,          \* history: the EditorInsert call under observation
    snip,         \* history: the SetEditorSnippet calls made in a row with one range
    delivered,    \* history: events handed to ProcessEvent since the last call from outside
    frame,        \* the semantic content of the window's latest frame, root first
    tree,         \* Window.Semantic: the tree as last rebuilt, root first
    prevTree,     \* Window.Semantic.PrevTree
    uptodate,     \* the semantic tree was rebuilt since the last frame
    sem,          \* history: the last AppendSemanticDiffs call
    lastError,    \* glfw: the lastError channel
    errRet,       \* what the last acceptError call returned
    errPanic,     \* the error acceptError panicked with, or NoError
    errPrinted,   \* the last acceptError call printed the error with log.Println
    stderr,       \* the error of the last report written to os.Stderr, or NoError
    errCall       \* history: the codes and the pending error of the last acceptError call

\* The dispatcher and the window's channels.
coreVars == <<d, busy, waitEvents, stack, panicked, result, cnf, wakeupFuncs, sending,
              destroy, options, actions, decoEnabled, decoHeight, submitted, calls,
              drains>>
\* The editor state and its histories.
imeVars == <<imeState, ime, ins, snip, delivered>>
\* The semantic trees of the window.
semVars == <<frame, tree, prevTree, uptodate, sem>>
\* The error channel of package glfw.
errVars == <<lastError, errRet, errPanic, errPrinted, stderr, errCall>>
vars == <<coreVars, teardownAt, imeVars, semVars, errVars>>

NoSend == "nosend"
\* Destroy did not become ready during the drain of this cycle.
NoTeardown == -1

\* ------------------------------------------------------- callbacks.SetDriver
\* d.Wakeup of the driver, the nil func for a nil driver (named by the driver).
WakeupOf(drv) == drv

\* ------------------------------------------------------- callbacks.Event
\* Mutation: the nil check is left out.
NoDriverIgnored(drv) == FALSE

\* if c.d == nil
NoDriver(drv) == drv = Nil

\* Mutation: the event is put at the head of the queue.
EnqueueFront(q, e) == <<e>> \o q

\* c.waitEvents = append(c.waitEvents, e)
Enqueue(q, e) == Append(q, e)

\* Mutation: the reentrancy guard is left out.
NeverBusy(b) == FALSE

\* if c.busy
IsBusy(b) == b

\* Mutation: the early return reports the event as unhandled.
BusyResultFalse == FALSE

\* return true, of an Event call that found a drain active
BusyResult == TRUE

\* Mutation: the loop stops one event early.
LoopCondSkipLast(q) == Len(q) > 1

\* Mutation: the loop gives up when the window is in teardown.
LoopCondUntilDestroy(q) == Len(q) > 0 /\ ~destroy

\* for len(c.waitEvents) > 0
LoopCond(q) == Len(q) > 0

\* e := c.waitEvents[0]
Front(q) == q[1]

\* copy(c.waitEvents, c.waitEvents[1:]); c.waitEvents = c.waitEvents[:len-1]
PopFront(q) == [i \in 1..(Len(q) - 1) |-> q[i + 1]]

\* Mutation: the results are accumulated instead of overwritten.
HandledAny(old, h) == old \/ h

\* handled = c.w.ProcessEvent(c.d, e)
Handled(old, h) == h

\* Mutation: busy is not cleared after the loop.
BusyKept == TRUE

\* c.busy = false, after the loop
BusyAfterDrain == FALSE

\* Mutation: the Destroy case is never taken.
NeverDestroyed(ds) == FALSE

\* case <-c.w.Destroy
DestroyReady(ds) == ds

\* Mutation: every triggering event is taken for a wake-up.
AnyEvent(e) == TRUE

\* if _, ok := e.(mado.WakeupEvent); ok
IsWakeup(e) == e = WakeupEvent

\* cnf := mado.Config{Decorated: c.w.Decorations.Enabled}
SeedConfig(enabled) == [Decorated |-> enabled, Title |-> 0, DecoHeight |-> 0]

\* opt(c.w.Metric, &cnf)
ApplyOpt(opt, c) ==
    IF opt[1] = "Decorated" THEN [c EXCEPT !.Decorated = (opt[2] = 1)]
    ELSE IF opt[1] = "Title" THEN [c EXCEPT !.Title = opt[2]]
    ELSE [c EXCEPT !.DecoHeight = opt[2]]

\* Mutation: the options are applied last to first.
RECURSIVE FoldOptsReversed(_, _)
FoldOptsReversed(opts, c) ==
    IF opts = <<>> THEN c
    ELSE FoldOptsReversed(SubSeq(opts, 1, Len(opts) - 1), ApplyOpt(opts[Len(opts)], c))

\* for _, opt := range opts { opt(c.w.Metric, &cnf) }
RECURSIVE FoldOpts(_, _)
FoldOpts(opts, c) ==
    IF opts = <<>> THEN c ELSE FoldOpts(Tail(opts), ApplyOpt(Head(opts), c))

\* decoHeight := c.w.Decorations.Height; if !c.w.Decorations.Enabled { decoHeight = 0 }
DerivedHeight(enabled, height) == IF ~enabled THEN 0 ELSE height

\* Mutation: the decoration-height option is put first.
ConfigureArgsFront(opts, h) == <<DecoHeightOpt(h)>> \o opts

\* opts = append(opts, mado.DecoHeightOpt(decoHeight))
ConfigureArgs(opts, h) == Append(opts, DecoHeightOpt(h))

\* One entry of the history of collaborator calls and channel polls.
Call(op, ev, h, arg) == [op |-> op, ev |-> ev, h |-> h, busy |-> busy, arg |-> arg]

Top == stack[Len(stack)]
Pop == SubSeq(stack, 1, Len(stack) - 1)
SetTop(f) == [stack EXCEPT ![Len(stack)] = f]
Running == ~panicked /\ sending = NoSend

\* ------------------------------------------------------- the editor state
Pos == 0..MaxPos
\* key.Range{Start, End}; a range with Start > End is reversed.
Range(s, e) == [Start |-> s, End |-> e]
Ranges == [Start : Pos, End : Pos]

\* The UTF-8 encoding of the rune "é": two bytes.
RuneBytes == {<<195, 169>>}
RECURSIVE Flatten(_)
Flatten(ss) == IF ss = <<>> THEN <<>> ELSE Head(ss) \o Flatten(Tail(ss))
\* The strings of up to MaxText runes, as their bytes.
Texts == {Flatten(ss) : ss \in SeqsUpTo(RuneBytes, MaxText)}

\* Mutation: the length of the string in bytes.
ByteCount(text) == Len(text)

\* utf8.RuneCountInString(text): of well-formed UTF-8, the bytes that are not
\* continuation bytes (10xxxxxx).
RuneCountInString(text) == Cardinality({i \in DOMAIN text : text[i] \div 64 # 2})

\* key.EditEvent{Range: r, Text: text}
EditEvent(r, text) == <<"EditEvent", r, text>>
\* key.SnippetEvent(r)
SnippetEvent(r) == <<"SnippetEvent", r>>
\* key.SelectionEvent(r)
SelectionEvent(r) == <<"SelectionEvent", r>>

\* start := sel.Start; if sel.End < start { start = sel.End }
InsertStart(sel) == IF sel.End < sel.Start THEN sel.End ELSE sel.Start

\* sel.Start = start + utf8.RuneCountInString(text); sel.End = sel.Start
InsertedSelection(sel, text) ==
    LET p == InsertStart(sel) + RuneCountInString(text) IN Range(p, p)

\* The states ImeState.Replace(r, text) may leave: it rewrites the stored
\* ranges, to any ranges.
Replaced(st, r, text) == [Selection : Ranges, Compose : Ranges, Snippet : Ranges]

\* Mutation: a reversed range is put in order before it is stored.
WithSelectionNormalised(st, r) ==
    [st EXCEPT !.Selection = IF r.Start > r.End THEN Range(r.End, r.Start) ELSE r]

\* c.w.ImeState.Selection.Range = r
WithSelection(st, r) == [st EXCEPT !.Selection = r]

\* Mutation: the composing region moves the selection with it.
WithComposeAndSelection(st, r) == [st EXCEPT !.Compose = r, !.Selection = r]

\* c.w.ImeState.Compose = r
WithCompose(st, r) == [st EXCEPT !.Compose = r]

\* Mutation: the snippet is announced before the edit.
EditorReplaceEventsSnippetFirst(r, text, sn) == <<SnippetEvent(sn), EditEvent(r, text)>>

\* The events EditorReplace passes to c.Event, in call order; sn is
\* c.w.ImeState.Snippet.Range when the second call is made.
EditorReplaceEvents(r, text, sn) == <<EditEvent(r, text), SnippetEvent(sn)>>

\* The events EditorInsert passes to c.Event, in call order.
EditorInsertEvents(sel, text, sn) ==
    Append(EditorReplaceEvents(sel, text, sn), SelectionEvent(InsertedSelection(sel, text)))

\* if sn := c.EditorState().Snippet.Range; sn == r
SameSnippet(sn, r) == sn = r

\* No editor callback is running outside a drain.
NoIme == [op |-> "none", pc |-> "idle", sel |-> Range(0, 0), text |-> <<>>,
          nested |-> 0, edits |-> 0]
\* No EditorInsert call is under observation.
NoIns == [open |-> FALSE, nested |-> FALSE, sel |-> Range(0, 0), text |-> <<>>,
          snippet |-> Range(0, 0), events |-> <<>>, at |-> <<>>, touched |-> FALSE]
\* No SetEditorSnippet call has just been made.
NoSnip == [r |-> Range(0, 0), before |-> Range(0, 0), n |-> 0, events |-> 0]

\* ------------------------------------------------------- the semantic tree
NodeIds == 1..MaxTree
\* A tree is written as its node IDs, root first.
Trees == {t \in SeqsUpTo(NodeIds, MaxTree) :
            \A i, j \in DOMAIN t : i # j => t[i] # t[j]}
\* The accumulators a caller hands over.
Accumulators == SeqsUpTo(NodeIds, MaxDiffs)
\* The entries of seq at the places in S, in order.
Pick(seq, S) ==
    LET F[i \in 0..Len(seq)] ==
          IF i = 0 THEN <<>>
          ELSE IF i \in S THEN Append(F[i - 1], seq[i]) ELSE F[i - 1]
    IN  F[Len(seq)]

\* Window.UpdateSemantics: unless the tree is current, the tree is rebuilt
\* from the frame and the tree it replaces is kept as PrevTree;
\* <<tree, prevTree>> afterwards.
UpdateSemantics(fr, cur, prev, current) ==
    IF current THEN <<cur, prev>> ELSE <<fr, cur>>

\* Window.CollectSemanticDiffs(&diffs, start): appends the IDs of the changed
\* nodes of the previous tree, root first; the accumulators it may leave.
CollectSemanticDiffs(diffs, start, prev) ==
    {diffs \o Pick(prev, S) : S \in SUBSET DOMAIN prev}

\* Mutation: the comparison starts at the last entry of the previous tree.
DiffLeaf(prev) == prev[Len(prev)]

\* c.w.Semantic.PrevTree[0]
DiffRoot(prev) == prev[1]

\* No AppendSemanticDiffs call was made.
NoSem == [n |-> 0, arg |-> <<>>, ret |-> <<>>, start |-> <<>>]

\* ------------------------------------------------------- glfw errors
\* A nil *Error.
NoError == 0
\* ErrorCode values.
notInitialized == 65537
apiUnavailable == 65542
platformError == 65544
formatUnavailable == 65545
ErrorCodes == {notInitialized, apiUnavailable, platformError, formatUnavailable}

\* The programmer errors of the GLFW documentation that are modelled.
ProgrammerErrors == {notInitialized}
\* make(chan *Error, 1)
ErrCap == 1
\* No acceptError call was made.
NoErrCall == [n |-> 0, codes |-> {}, err |-> NoError]

\* Mutation: a platform error that is not accepted panics like the others.
NeverPrintedOnly(code) == FALSE

\* case platformError: log.Println(err); return nil
PrintedOnly(code) == code = platformError

Init ==
    /\ d = Nil
    /\ busy = FALSE
    /\ waitEvents = <<>>
    /\ stack = <<>>
    /\ panicked = FALSE
    /\ result = FALSE
    /\ cnf = SeedConfig(FALSE)
    /\ wakeupFuncs = <<>>
    /\ sending = NoSend
    /\ destroy = FALSE
    /\ options = <<>>
    /\ actions = <<>>
    /\ decoEnabled = FALSE
    /\ decoHeight = 0
    /\ submitted = <<>>
    /\ calls = <<>>
    /\ drains = 0
    /\ teardownAt = NoTeardown
    /\ imeState = [Selection |-> Range(0, 0), Compose |-> Range(0, 0),
                   Snippet |-> Range(0, 0)]
    /\ ime = NoIme
    /\ ins = NoIns
    /\ snip = NoSnip
    /\ delivered = <<>>
    /\ frame = <<>>
    /\ tree = <<>>
    /\ prevTree = <<>>
    /\ uptodate = FALSE
    /\ sem = NoSem
    /\ lastError = <<>>
    /\ errRet = NoError
    /\ errPanic = NoError
    /\ errPrinted = FALSE
    /\ stderr = NoError
    /\ errCall = NoErrCall

\* SetDriver up to its channel send: c.d = d and the choice of the wake-up function.
SetDriver(drv) ==
    /\ Running
    /\ stack = <<>>
    /\ d' = drv
    /\ sending' = WakeupOf(drv)
    /\ UNCHANGED <<busy, waitEvents, stack, panicked, result, cnf, wakeupFuncs, destroy,
                   options, actions, decoEnabled, decoHeight, submitted, calls, drains>>

\* Mutation: the send does not wait for room in the channel.
CanSendAlways(q) == TRUE

\* c.w.WakeupFuncs <- wakeup: a channel send proceeds only when there is room.
CanSend(q) == Len(q) < ChanCap

\* c.w.WakeupFuncs <- wakeup: the send waits for room in the channel.
SetDriverSend ==
    /\ ~panicked
    /\ sending # NoSend
    /\ CanSend(wakeupFuncs)
    /\ wakeupFuncs' = Append(wakeupFuncs, sending)
    /\ sending' = NoSend
    /\ UNCHANGED <<d, busy, waitEvents, stack, panicked, result, cnf, destroy, options,
                   actions, decoEnabled, decoHeight, submitted, calls, drains>>

\* Event from its entry to the start of the drain loop, or to its early return.
\* It is called by the platform (no call active) or from inside ProcessEvent.
Event(e) ==
    /\ Running
    /\ IF stack = <<>> THEN TRUE ELSE Top.pc = "process"
    /\ IF NoDriver(d)
       THEN /\ panicked' = TRUE
            /\ UNCHANGED <<d, busy, waitEvents, stack, result, cnf, wakeupFuncs, sending,
                           destroy, options, actions, decoEnabled, decoHeight,
                           submitted, calls, drains>>
       ELSE /\ submitted' = IF stack = <<>> THEN <<e>> ELSE Append(submitted, e)
            /\ calls' = IF stack = <<>> THEN <<>> ELSE calls
            /\ cnf' = IF stack = <<>> THEN SeedConfig(FALSE) ELSE cnf
            /\ waitEvents' = Enqueue(waitEvents, e)
            /\ IF IsBusy(busy)
               THEN /\ result' = BusyResult
                    /\ UNCHANGED <<busy, stack, drains>>
               ELSE /\ busy' = TRUE
                    /\ stack' = Append(stack, [e |-> e, handled |-> FALSE,
                                               pc |-> "loop", cur |-> NoEvent])
                    /\ drains' = drains + 1
                    /\ UNCHANGED result
            /\ UNCHANGED <<d, panicked, wakeupFuncs, sending, destroy, options,
                           actions, decoEnabled, decoHeight>>

\* One turn of the drain loop up to the call of ProcessEvent.
LoopStep ==
    /\ Running
    /\ stack # <<>>
    /\ Top.pc = "loop"
    /\ LoopCond(waitEvents)
    /\ LET ev == Front(waitEvents) IN
        /\ waitEvents' = PopFront(waitEvents)
        /\ stack' = SetTop([Top EXCEPT !.pc = "process", !.cur = ev])
        /\ calls' = Append(calls, Call("ProcessEvent", ev, FALSE, <<>>))
    /\ UNCHANGED <<d, busy, panicked, result, cnf, wakeupFuncs, sending, destroy, options,
                   actions, decoEnabled, decoHeight, submitted, drains>>

\* ProcessEvent returns h to the loop.
ProcessEventReturn(h) ==
    /\ Running
    /\ stack # <<>>
    /\ Top.pc = "process"
    /\ stack' = SetTop([Top EXCEPT !.pc = "loop", !.cur = NoEvent,
                                   !.handled = Handled(Top.handled, h)])
    /\ calls' = Append(calls, Call("ProcessEventReturn", Top.cur, h, <<>>))
    /\ UNCHANGED <<d, busy, waitEvents, panicked, result, cnf, wakeupFuncs, sending,
                   destroy, options, actions, decoEnabled, decoHeight, submitted, drains>>

\* The loop ends: c.busy = false.
LoopExit ==
    /\ Running
    /\ stack # <<>>
    /\ Top.pc = "loop"
    /\ ~LoopCond(waitEvents)
    /\ busy' = BusyAfterDrain
    /\ stack' = SetTop([Top EXCEPT !.pc = "post"])
    /\ drains' = drains - 1
    /\ UNCHANGED <<d, waitEvents, panicked, result, cnf, wakeupFuncs, sending, destroy,
                   options, actions, decoEnabled, decoHeight, submitted, calls>>

\* The rest of Event: the Destroy check, UpdateState, the two polls, the return.
PostDrain ==
    /\ Running
    /\ stack # <<>>
    /\ Top.pc = "post"
    /\ LET gone    == DestroyReady(destroy)
           wake    == ~gone /\ IsWakeup(Top.e)
           hasOpts == wake /\ Len(options) > 0
           hasActs == wake /\ Len(actions) > 0
           opts    == Head(options)
           folded  == FoldOpts(opts, SeedConfig(decoEnabled))
           height  == DerivedHeight(folded.Decorated, decoHeight)
           c1 == Append(calls, Call("SelectDestroy", NoEvent, gone, <<>>))
           c2 == IF gone THEN c1 ELSE Append(c1, Call("UpdateState", NoEvent, FALSE, <<>>))
           c3 == IF wake
                 THEN Append(c2, Call("SelectOptions", NoEvent, hasOpts, <<>>))
                 ELSE c2
           c4 == IF hasOpts
                 THEN Append(c3, Call("Configure", NoEvent, FALSE, ConfigureArgs(opts, height)))
                 ELSE c3
           c5 == IF wake
                 THEN Append(c4, Call("SelectActions", NoEvent, hasActs, <<>>))
                 ELSE c4
           c6 == IF hasActs
                 THEN Append(c5, Call("Perform", NoEvent, FALSE, <<Head(actions)>>))
                 ELSE c5
       IN
        /\ calls' = c6
        /\ options' = IF hasOpts THEN Tail(options) ELSE options
        /\ cnf' = IF hasOpts THEN folded ELSE cnf
        /\ decoEnabled' = IF hasOpts THEN folded.Decorated ELSE decoEnabled
        /\ actions' = IF hasActs THEN Tail(actions) ELSE actions
    /\ result' = Top.handled
    /\ stack' = Pop
    /\ UNCHANGED <<d, busy, waitEvents, panicked, wakeupFuncs, sending, destroy,
                   decoHeight, submitted, drains>>

\* ------------------------------------------------------- the window's side
\* The window takes the wake-up function out of WakeupFuncs.
TakeWakeupFunc ==
    /\ ~panicked
    /\ Len(wakeupFuncs) > 0
    /\ wakeupFuncs' = Tail(wakeupFuncs)
    /\ UNCHANGED <<d, busy, waitEvents, stack, panicked, result, cnf, sending, destroy,
                   options, actions, decoEnabled, decoHeight, submitted, calls, drains>>

\* The window begins teardown: Destroy becomes ready and stays so.
DestroyWindow ==
    /\ ~panicked
    /\ ~destroy
    /\ destroy' = TRUE
    /\ UNCHANGED <<d, busy, waitEvents, stack, panicked, result, cnf, wakeupFuncs, sending,
                   options, actions, decoEnabled, decoHeight, submitted, calls, drains>>

\* A batch of options is posted to the window.
PostOptions(batch) ==
    /\ ~panicked
    /\ Len(options) < ChanCap
    /\ options' = Append(options, batch)
    /\ UNCHANGED <<d, busy, waitEvents, stack, panicked, result, cnf, wakeupFuncs, sending,
                   destroy, actions, decoEnabled, decoHeight, submitted, calls, drains>>

\* A batch of actions is posted to the window.
PostActions(acts) ==
    /\ ~panicked
    /\ Len(actions) < ChanCap
    /\ actions' = Append(actions, acts)
    /\ UNCHANGED <<d, busy, waitEvents, stack, panicked, result, cnf, wakeupFuncs, sending,
                   destroy, options, decoEnabled, decoHeight, submitted, calls, drains>>

\* The window lays out its decorations and records their height.
LayoutDecorations(h) ==
    /\ ~panicked
    /\ decoHeight # h
    /\ decoHeight' = h
    /\ UNCHANGED <<d, busy, waitEvents, stack, panicked, result, cnf, wakeupFuncs, sending,
                   destroy, options, actions, decoEnabled, submitted, calls, drains>>

\* ------------------------------------------------------- editor callbacks
\* A callback is called from outside a drain, when no other call runs ...
TopLevel == Running /\ stack = <<>> /\ ime.pc = "idle" /\ submitted = <<>>
\* ... or by the window from inside ProcessEvent.
Nested == Running /\ stack # <<>> /\ Top.pc = "process" /\ ime.nested < MaxNested

\* The running callback as a call from outside makes it.
Called(op, r, text, n) ==
    [op |-> op, pc |-> "edit", sel |-> r, text |-> text, nested |-> 0, edits |-> n]
\* Another call writes the ranges while an EditorInsert is under observation.
Touch(i, st) ==
    IF ~i.open THEN i
    ELSE [i EXCEPT !.touched = @ \/ Len(i.events) = 3,
                   !.snippet = IF Len(i.events) = 1 THEN st.Snippet ELSE @]
\* The place in delivered the event submitted now will take.
QueuePlace == Len(delivered) + Len(waitEvents) + 1

\* Event called by the platform.
PlatformEvent(e) ==
    /\ TopLevel
    /\ Event(e)
    /\ snip' = NoSnip
    /\ UNCHANGED <<imeState, ime, ins, delivered>>

\* Event called by the window from inside ProcessEvent.
NestedEvent(e) ==
    /\ stack # <<>>
    /\ Len(submitted) <= MaxNested
    /\ Event(e)
    /\ UNCHANGED imeVars

\* EditorReplace called from outside a drain, up to its first c.Event call.
ReplaceBegin(op, r, text) ==
    /\ TopLevel
    /\ imeState' \in Replaced(imeState, r, text)
    /\ Event(EditorReplaceEvents(r, text, imeState'.Snippet)[1])
    /\ ime' = Called(op, r, text, 1)
    /\ snip' = NoSnip
    /\ UNCHANGED delivered

\* EditorReplace(r, text) called from outside a drain.
EditorReplace(r, text) ==
    /\ ReplaceBegin("EditorReplace", r, text)
    /\ UNCHANGED ins

\* The second c.Event call of EditorReplace, made when the first has returned.
EditorReplaceSnippet ==
    /\ Running
    /\ stack = <<>>
    /\ ime.pc = "edit"
    /\ Event(EditorReplaceEvents(ime.sel, ime.text, imeState.Snippet)[2])
    /\ ime' = [ime EXCEPT !.pc = IF ime.op = "EditorInsert" THEN "snippet" ELSE "last"]
    /\ ins' = IF ins.open
              THEN [ins EXCEPT !.events = Append(@, SnippetEvent(imeState.Snippet)),
                               !.at = Append(@, QueuePlace)]
              ELSE ins
    /\ UNCHANGED <<imeState, snip, delivered>>

\* EditorInsert(text) called from outside a drain, up to the first c.Event call.
EditorInsert(text) ==
    /\ imeState.Selection \in Ranges
    /\ ReplaceBegin("EditorInsert", imeState.Selection, text)
    /\ ins' = [open |-> TRUE, nested |-> FALSE, sel |-> imeState.Selection,
               text |-> text, snippet |-> imeState'.Snippet,
               events |-> <<EditEvent(imeState.Selection, text)>>, at |-> <<1>>,
               touched |-> FALSE]

\* The rest of EditorInsert, run when EditorReplace has returned: the new
\* selection and the call of SetEditorSelection.
EditorInsertSelect ==
    /\ Running
    /\ stack = <<>>
    /\ ime.op = "EditorInsert"
    /\ ime.pc = "snippet"
    /\ LET sel == InsertedSelection(ime.sel, ime.text) IN
        /\ imeState' = WithSelection(imeState, sel)
        /\ Event(SelectionEvent(sel))
    /\ ime' = [ime EXCEPT !.pc = "last"]
    /\ ins' = [ins EXCEPT !.events = Append(@, SelectionEvent(imeState'.Selection)),
                          !.at = Append(@, QueuePlace)]
    /\ UNCHANGED <<snip, delivered>>

\* Event called several times in a row while a drain is active: each call
\* appends its event and returns.
RECURSIVE EnqueueAll(_, _)
EnqueueAll(q, es) == IF es = <<>> THEN q ELSE EnqueueAll(Enqueue(q, Head(es)), Tail(es))

NestedSubmit(es) ==
    /\ ~NoDriver(d)
    /\ IsBusy(busy)
    /\ waitEvents' = EnqueueAll(waitEvents, es)
    /\ submitted' = submitted \o es
    /\ result' = BusyResult
    /\ UNCHANGED <<d, busy, stack, panicked, cnf, wakeupFuncs, sending, destroy, options,
                   actions, decoEnabled, decoHeight, calls, drains>>

\* EditorInsert(text) called from inside ProcessEvent.
NestedEditorInsert(text) ==
    /\ Nested
    /\ ime.edits < MaxEdits
    /\ imeState.Selection \in Ranges
    /\ LET sel == imeState.Selection IN
       \E st \in Replaced(imeState, sel, text) :
         LET es == EditorInsertEvents(sel, text, st.Snippet) IN
           /\ imeState' = WithSelection(st, InsertedSelection(sel, text))
           /\ NestedSubmit(es)
           /\ ins' = IF ins.open /\ ~ins.nested
                     THEN Touch(ins, st)
                     ELSE [open |-> TRUE, nested |-> TRUE, sel |-> sel, text |-> text,
                           snippet |-> st.Snippet, events |-> es,
                           at |-> [k \in 1..3 |-> QueuePlace + k - 1],
                           touched |-> FALSE]
    /\ ime' = [ime EXCEPT !.nested = @ + 1, !.edits = @ + 1]
    /\ snip' = NoSnip
    /\ UNCHANGED delivered

\* SetEditorSelection(r), called from outside a drain or from inside ProcessEvent.
SetEditorSelection(r) ==
    /\ TopLevel \/ Nested
    /\ imeState' = WithSelection(imeState, r)
    /\ Event(SelectionEvent(r))
    /\ snip' = NoSnip
    /\ ime' = IF stack = <<>>
              THEN [Called("SetEditorSelection", r, <<>>, 0) EXCEPT !.pc = "last"]
              ELSE [ime EXCEPT !.nested = @ + 1]
    /\ ins' = Touch(ins, imeState')
    /\ UNCHANGED delivered

\* SetEditorSnippet(r), called from outside a drain or from inside ProcessEvent.
SetEditorSnippet(r) ==
    /\ TopLevel \/ Nested
    /\ IF SameSnippet(imeState.Snippet, r)
       THEN /\ UNCHANGED coreVars
            /\ ime' = IF stack = <<>> THEN ime ELSE [ime EXCEPT !.nested = @ + 1]
       ELSE /\ Event(SnippetEvent(r))
            /\ ime' = IF stack = <<>>
                      THEN [Called("SetEditorSnippet", r, <<>>, 0) EXCEPT !.pc = "last"]
                      ELSE [ime EXCEPT !.nested = @ + 1]
    /\ snip' = LET k == IF SameSnippet(imeState.Snippet, r) THEN 0 ELSE 1 IN
               IF snip.n = 1 /\ snip.r = r
               THEN [snip EXCEPT !.n = 2, !.events = @ + k]
               ELSE [r |-> r, before |-> imeState.Snippet, n |-> 1, events |-> k]
    /\ UNCHANGED <<imeState, ins, delivered>>

\* SetComposingRegion(r), called from outside a drain or from inside ProcessEvent.
SetComposingRegion(r) ==
    /\ ~panicked
    /\ sending = NoSend
    /\ IF stack = <<>> THEN ime.pc = "idle" /\ submitted = <<>>
       ELSE Top.pc = "process" /\ ime.nested < MaxNested
    /\ imeState' = WithCompose(imeState, r)
    /\ ime' = IF stack = <<>> THEN ime ELSE [ime EXCEPT !.nested = @ + 1]
    /\ snip' = NoSnip
    /\ UNCHANGED <<coreVars, ins, delivered>>

\* The call from outside returns to the platform; the histories of the call
\* end with it.
CallReturns ==
    /\ Running
    /\ stack = <<>>
    /\ ime.pc \in {"idle", "last"}
    /\ submitted # <<>>
    /\ submitted' = <<>>
    /\ calls' = <<>>
    /\ delivered' = <<>>
    /\ ins' = NoIns
    /\ ime' = NoIme
    /\ UNCHANGED <<d, busy, waitEvents, stack, panicked, result, cnf, wakeupFuncs, sending,
                   destroy, options, actions, decoEnabled, decoHeight, drains,
                   imeState, snip>>

\* ------------------------------------------------------- specifications
\* The dispatcher under up to MaxSubmit events a cycle.
Next ==
    \/ (\E drv \in Drivers \cup {Nil} : SetDriver(drv)) /\ UNCHANGED <<teardownAt, imeVars, semVars, errVars>>
    \/ SetDriverSend /\ UNCHANGED <<teardownAt, imeVars, semVars, errVars>>
    \/ (\E e \in Events : Event(e) /\ Len(submitted') <= MaxSubmit)
          /\ teardownAt' = (IF stack = <<>> /\ stack' # <<>> THEN NoTeardown ELSE teardownAt)
          /\ UNCHANGED <<imeVars, semVars, errVars>>
    \/ LoopStep /\ UNCHANGED <<teardownAt, imeVars, semVars, errVars>>
    \/ (\E h \in BOOLEAN : ProcessEventReturn(h)) /\ UNCHANGED <<teardownAt, imeVars, semVars, errVars>>
    \/ LoopExit /\ UNCHANGED <<teardownAt, imeVars, semVars, errVars>>
    \/ PostDrain /\ UNCHANGED <<teardownAt, imeVars, semVars, errVars>>
    \/ TakeWakeupFunc /\ UNCHANGED <<teardownAt, imeVars, semVars, errVars>>
    \/ DestroyWindow
          /\ teardownAt' = (IF stack = <<>> THEN teardownAt
                            ELSE IF Top.pc \in {"loop", "process"}
                                 THEN Len(SelectSeq(calls, LAMBDA c : c.op = "ProcessEvent"))
                                 ELSE teardownAt)
          /\ UNCHANGED <<imeVars, semVars, errVars>>
    \/ (\E batch \in ShortBatches : PostOptions(batch)) /\ UNCHANGED <<teardownAt, imeVars, semVars, errVars>>
    \/ (\E acts \in ActionSet : PostActions(acts)) /\ UNCHANGED <<teardownAt, imeVars, semVars, errVars>>

Spec == Init /\ [][Next]_vars

\* The configuration step under every batch of up to MaxOpts options and
\* every decoration height, one event a cycle.
NextConfig ==
    \/ (\E drv \in Drivers \cup {Nil} : SetDriver(drv)) /\ UNCHANGED <<teardownAt, imeVars, semVars, errVars>>
    \/ SetDriverSend /\ UNCHANGED <<teardownAt, imeVars, semVars, errVars>>
    \/ (\E e \in Events : Event(e) /\ Len(submitted') <= 1) /\ UNCHANGED <<teardownAt, imeVars, semVars, errVars>>
    \/ LoopStep /\ UNCHANGED <<teardownAt, imeVars, semVars, errVars>>
    \/ (\E h \in BOOLEAN : ProcessEventReturn(h)) /\ UNCHANGED <<teardownAt, imeVars, semVars, errVars>>
    \/ LoopExit /\ UNCHANGED <<teardownAt, imeVars, semVars, errVars>>
    \/ PostDrain /\ UNCHANGED <<teardownAt, imeVars, semVars, errVars>>
    \/ TakeWakeupFunc /\ UNCHANGED <<teardownAt, imeVars, semVars, errVars>>
    \/ DestroyWindow /\ UNCHANGED <<teardownAt, imeVars, semVars, errVars>>
    \/ (\E batch \in OptionBatches : PostOptions(batch)) /\ UNCHANGED <<teardownAt, imeVars, semVars, errVars>>
    \/ (\E acts \in ActionSet : PostActions(acts)) /\ UNCHANGED <<teardownAt, imeVars, semVars, errVars>>
    \/ (\E h \in 0..MaxHeight : LayoutDecorations(h)) /\ UNCHANGED <<teardownAt, imeVars, semVars, errVars>>

SpecConfig == Init /\ [][NextConfig]_vars

\* The editor callbacks, called from outside a drain and from inside
\* ProcessEvent, with a driver bound or not.
NextIme ==
    \/ (\E drv \in Drivers \cup {Nil} : SetDriver(drv) /\ ime.pc = "idle" /\ submitted = <<>>)
          /\ UNCHANGED <<teardownAt, imeVars, semVars, errVars>>
    \/ SetDriverSend /\ UNCHANGED <<teardownAt, imeVars, semVars, errVars>>
    \/ (\E e \in Events : PlatformEvent(e)) /\ UNCHANGED <<teardownAt, semVars, errVars>>
    \/ NestedEvent(KeyEvent) /\ UNCHANGED <<teardownAt, semVars, errVars>>
    \/ LoopStep /\ delivered' = Append(delivered, Front(waitEvents))
                /\ UNCHANGED <<teardownAt, imeState, ime, ins, snip, semVars, errVars>>
    \/ ProcessEventReturn(TRUE) /\ UNCHANGED <<teardownAt, imeVars, semVars, errVars>>
    \/ LoopExit /\ UNCHANGED <<teardownAt, imeVars, semVars, errVars>>
    \/ PostDrain /\ UNCHANGED <<teardownAt, imeVars, semVars, errVars>>
    \/ CallReturns /\ UNCHANGED <<teardownAt, semVars, errVars>>
    \/ (\E r \in Ranges, text \in Texts : EditorReplace(r, text)) /\ UNCHANGED <<teardownAt, semVars, errVars>>
    \/ EditorReplaceSnippet /\ UNCHANGED <<teardownAt, semVars, errVars>>
    \/ (\E text \in Texts : EditorInsert(text)) /\ UNCHANGED <<teardownAt, semVars, errVars>>
    \/ EditorInsertSelect /\ UNCHANGED <<teardownAt, semVars, errVars>>
    \/ (\E text \in Texts : NestedEditorInsert(text)) /\ UNCHANGED <<teardownAt, semVars, errVars>>
    \/ (\E r \in Ranges : SetEditorSelection(r)) /\ UNCHANGED <<teardownAt, semVars, errVars>>
    \/ (\E r \in Ranges : SetEditorSnippet(r)) /\ UNCHANGED <<teardownAt, semVars, errVars>>
    \/ (\E r \in Ranges : SetComposingRegion(r)) /\ UNCHANGED <<teardownAt, semVars, errVars>>

SpecIme == Init /\ [][NextIme]_vars

\* ------------------------------------------------------- semantic callbacks
\* SemanticRoot: the forced rebuild.
SemanticRoot ==
    /\ LET u == UpdateSemantics(frame, tree, prevTree, uptodate) IN
         /\ tree' = u[1]
         /\ prevTree' = u[2]
    /\ uptodate' = TRUE
    /\ UNCHANGED <<frame, sem>>

\* AppendSemanticDiffs(diffs).
AppendSemanticDiffs(diffs) ==
    /\ LET u == UpdateSemantics(frame, tree, prevTree, uptodate) IN
         /\ tree' = u[1]
         /\ prevTree' = u[2]
         /\ IF Len(u[2]) > 0
            THEN \E out \in CollectSemanticDiffs(diffs, DiffRoot(u[2]), u[2]) :
                   sem' = [n |-> 1, arg |-> diffs, ret |-> out,
                           start |-> <<DiffRoot(u[2])>>]
            ELSE sem' = [n |-> 1, arg |-> diffs, ret |-> diffs, start |-> <<>>]
    /\ uptodate' = TRUE
    /\ UNCHANGED frame

\* The window lays out a new frame: the tree is no longer current.
NewFrame ==
    /\ frame' \in Trees
    /\ uptodate' = FALSE
    /\ sem' = NoSem
    /\ UNCHANGED <<tree, prevTree>>

NextSemantic ==
    \/ SemanticRoot /\ UNCHANGED <<coreVars, teardownAt, imeVars, errVars>>
    \/ (\E diffs \in Accumulators : AppendSemanticDiffs(diffs))
          /\ UNCHANGED <<coreVars, teardownAt, imeVars, errVars>>
    \/ NewFrame /\ UNCHANGED <<coreVars, teardownAt, imeVars, errVars>>

SpecSemantic == Init /\ [][NextSemantic]_vars

\* ------------------------------------------------------- glfw errors
\* fetchError: the pending error, or NoError; it does not block.
fetchError == IF Len(lastError) > 0 THEN Head(lastError) ELSE NoError

\* What fetchError leaves in the channel.
Fetched == IF Len(lastError) > 0 THEN Tail(lastError) ELSE lastError

\* flushErrors: a pending error is reported on os.Stderr.
flushErrors ==
    /\ errPanic = NoError
    /\ lastError' = Fetched
    /\ stderr' = IF fetchError # NoError THEN fetchError ELSE stderr
    /\ UNCHANGED <<errRet, errPanic, errPrinted, errCall>>

\* goErrorCB(code, desc): the error callback flushes what is pending and
\* sends the error without blocking.
goErrorCB(code) ==
    /\ errPanic = NoError
    /\ IF Len(Fetched) < ErrCap
       THEN /\ lastError' = Append(Fetched, code)
            /\ stderr' = IF fetchError # NoError THEN fetchError ELSE stderr
       ELSE /\ lastError' = Fetched
            /\ stderr' = code
    /\ UNCHANGED <<errRet, errPanic, errPrinted, errCall>>

\* acceptError(codes...)
acceptError(codes) ==
    /\ errPanic = NoError
    /\ LET err == fetchError IN
        /\ lastError' = Fetched
        /\ errCall' = [n |-> 1, codes |-> codes, err |-> err]
        /\ IF err = NoError
           THEN /\ errRet' = NoError
                /\ errPrinted' = FALSE
                /\ UNCHANGED <<errPanic, stderr>>
           ELSE IF err \in codes
           THEN /\ errRet' = err
                /\ errPrinted' = FALSE
                /\ UNCHANGED <<errPanic, stderr>>
           ELSE IF PrintedOnly(err)
           THEN /\ errRet' = NoError
                /\ errPrinted' = TRUE
                /\ UNCHANGED <<errPanic, stderr>>
           ELSE IF err \in ProgrammerErrors
           THEN /\ errPanic' = err
                /\ errPrinted' = FALSE
                /\ UNCHANGED <<errRet, stderr>>
           ELSE /\ errPanic' = err
                /\ stderr' = err
                /\ errPrinted' = FALSE
                /\ UNCHANGED errRet

\* panicError
panicError == acceptError({})

NextErr ==
    \/ (\E code \in ErrorCodes : goErrorCB(code))
          /\ UNCHANGED <<coreVars, teardownAt, imeVars, semVars>>
    \/ flushErrors /\ UNCHANGED <<coreVars, teardownAt, imeVars, semVars>>
    \/ (\E codes \in SUBSET ErrorCodes : acceptError(codes))
          /\ UNCHANGED <<coreVars, teardownAt, imeVars, semVars>>
    \/ panicError /\ UNCHANGED <<coreVars, teardownAt, imeVars, semVars>>

SpecErr == Init /\ [][NextErr]_vars

\* ---------------------------------------------------------------- history
\* The entries of the history that are calls of op.
CallsOf(log, op) == SelectSeq(log, LAMBDA c : c.op = op)
\* The events handed to ProcessEvent in this cycle, in order.
Processed == [i \in 1..Len(CallsOf(calls, "ProcessEvent")) |->
                 CallsOf(calls, "ProcessEvent")[i].ev]
\* The returns of ProcessEvent in this cycle, in order.
Returns == CallsOf(calls, "ProcessEventReturn")
\* No Event call is active and one has run: the outermost call has returned.
Returned == stack = <<>> /\ submitted # <<>>
\* This step returns from an Event call that ran a drain loop.
Returning == Len(stack') < Len(stack)
\* The history entries this step adds.
NewCalls == SubSeq(calls', Len(calls) + 1, Len(calls'))

\* ---------------------------------------------------------------- claims

\* C1: events are handed to ProcessEvent in the order they were submitted,
\* nested submissions included: the events processed so far are always a
\* prefix of the events submitted in the cycle.
C1_FifoOrder ==
    /\ Len(Processed) <= Len(submitted)
    /\ \A i \in 1..Len(Processed) : Processed[i] = submitted[i]

\* A cycle of three events, two submitted from inside ProcessEvent, all processed.
C1_Witness ==
    /\ stack = <<>>
    /\ submitted = <<KeyEvent, WakeupEvent, KeyEvent>>
    /\ Processed = submitted

\* C2: at most one drain loop over waitEvents is active in every reachable state.
C2_OneDrain == drains <= 1

\* ProcessEvent has made two Event calls while it processes one event.
C2_Witness ==
    /\ drains = 1
    /\ stack # <<>>
    /\ Top.pc = "process"
    /\ Len(submitted) = Len(Processed) + 2
    /\ Len(waitEvents) = 2

\* C3: when the outermost Event call has returned, waitEvents is empty, busy
\* is false and the events processed are exactly the events submitted.
C3_DrainComplete ==
    stack = <<>> => /\ waitEvents = <<>>
                    /\ ~busy
                    /\ Processed = submitted

\* The outermost call has returned from a cycle with nested submissions.
C3_Witness ==
    /\ Returned
    /\ ~panicked
    /\ Len(submitted) >= 2
    /\ Len(Returns) = Len(submitted)

\* C4: an Event call made while busy only appends its event to waitEvents and
\* returns true; it calls no collaborator, polls no channel and leaves busy.
C4_BusyEventOnlyAppends ==
    [][(busy /\ Len(submitted') = Len(submitted) + 1) =>
          /\ waitEvents' = Append(waitEvents, submitted'[Len(submitted')])
          /\ submitted' = Append(submitted, submitted'[Len(submitted')])
          /\ result' = TRUE
          /\ UNCHANGED <<busy, calls, stack, drains, destroy, options, actions,
                         decoEnabled, cnf, d>>]_vars

\* An Event call during a drain has returned true with its event queued.
C4_Witness ==
    /\ busy
    /\ stack # <<>>
    /\ Top.pc = "process"
    /\ waitEvents # <<>>
    /\ waitEvents[Len(waitEvents)] = submitted[Len(submitted)]
    /\ result = TRUE

\* C5: Event with no driver bound panics and changes nothing else.
C5_NoDriverPanics ==
    [][\A e \in Events : (d = Nil /\ Event(e)) =>
          /\ panicked'
          /\ UNCHANGED <<waitEvents, busy, submitted, calls, stack, drains, result,
                         options, actions, destroy>>]_vars

\* Event panicked after the driver of an earlier cycle was cleared.
C5_Witness ==
    /\ panicked
    /\ d = Nil
    /\ Returned
    /\ waitEvents = <<>>
    /\ ~busy

\* C6: a top-level Event call returns what ProcessEvent returned for the last
\* event of the drain, which is the last event submitted in the cycle.
C6_LastHandled ==
    Returned => /\ Returns # <<>>
                /\ result = Returns[Len(Returns)].h
                /\ Returns[Len(Returns)].ev = submitted[Len(submitted)]

\* The call returned the last result, which differs from the triggering event's.
C6_Witness ==
    /\ Returned
    /\ Len(Returns) >= 2
    /\ Returns[1].h
    /\ ~Returns[Len(Returns)].h
    /\ result = FALSE

\* C7: if Destroy is ready when a top-level Event call finishes its drain, the
\* call makes no UpdateState, Configure or Perform call, consumes no Options or
\* Actions batch, and returns the handled result of the drain.
C7_TeardownSkipsReconcile ==
    [][(Returning /\ destroy) =>
          /\ Len(NewCalls) = 1
          /\ NewCalls[1].op = "SelectDestroy"
          /\ UNCHANGED <<options, actions, decoEnabled>>
          /\ Returns # <<>>
          /\ result' = Returns[Len(Returns)].h]_vars

\* A wake-up cycle returned true under teardown with both batches still pending.
C7_Witness ==
    /\ Returned
    /\ destroy
    /\ submitted[1] = WakeupEvent
    /\ calls[Len(calls)].op = "SelectDestroy"
    /\ options # <<>>
    /\ actions # <<>>
    /\ result = TRUE

\* The positions of the UpdateState calls in the history.
UpdateCalls == {i \in DOMAIN calls : calls[i].op = "UpdateState"}
\* The Destroy check of this cycle found the window in teardown.
SawTeardown == \E i \in DOMAIN calls : calls[i].op = "SelectDestroy" /\ calls[i].h

\* C8: UpdateState is called at most once in a cycle, with busy cleared, after
\* every submitted event has been processed and right after the Destroy check
\* found no teardown, and no ProcessEvent follows it; a top-level call that has
\* returned called it exactly once unless it found the window in teardown.
C8_UpdateStateOnce ==
    /\ Cardinality(UpdateCalls) <= 1
    /\ \A i \in UpdateCalls :
          /\ ~calls[i].busy
          /\ Len(CallsOf(SubSeq(calls, 1, i), "ProcessEventReturn")) = Len(submitted)
          /\ Len(CallsOf(SubSeq(calls, 1, i), "ProcessEvent")) = Len(submitted)
          /\ Len(CallsOf(calls, "ProcessEvent")) = Len(submitted)
          /\ i > 1
          /\ calls[i - 1].op = "SelectDestroy"
          /\ ~calls[i - 1].h
    /\ Returned => (Cardinality(UpdateCalls) = 1 <=> ~SawTeardown)

\* A cycle with nested submissions has returned after one UpdateState call.
C8_Witness ==
    /\ Returned
    /\ Len(submitted) >= 2
    /\ Cardinality(UpdateCalls) = 1
    /\ ~SawTeardown

\* C9: only the tail of a top-level Event call consumes batches; it consumes at
\* most one Options batch, handed to Configure, and at most one Actions batch,
\* handed to Perform, and none unless its own event is a WakeupEvent and Destroy
\* is not ready; an absent batch means no driver call, and the call returns.
C9_AtMostOneBatchEach ==
    [][/\ (Len(options') < Len(options) \/ Len(actions') < Len(actions)) => Returning
       /\ Returning =>
             LET nConf == Len(CallsOf(NewCalls, "Configure"))
                 nPerf == Len(CallsOf(NewCalls, "Perform"))
             IN /\ nConf <= 1
                /\ nPerf <= 1
                /\ Len(CallsOf(NewCalls, "SelectOptions")) <= 1
                /\ Len(CallsOf(NewCalls, "SelectActions")) <= 1
                /\ Len(options') = Len(options) - nConf
                /\ Len(actions') = Len(actions) - nPerf
                /\ (nConf + nPerf > 0) => (Top.e = WakeupEvent /\ ~destroy)
                /\ (nConf + nPerf > 0) => submitted[1] = WakeupEvent
                /\ options = <<>> => nConf = 0
                /\ actions = <<>> => nPerf = 0]_vars

\* A wake-up cycle polled both channels, found neither batch and returned.
C9_Witness ==
    /\ Returned
    /\ submitted[1] = WakeupEvent
    /\ CallsOf(calls, "SelectOptions") # <<>>
    /\ ~CallsOf(calls, "SelectOptions")[1].h
    /\ CallsOf(calls, "SelectActions") # <<>>
    /\ ~CallsOf(calls, "SelectActions")[1].h
    /\ CallsOf(calls, "Configure") = <<>>
    /\ CallsOf(calls, "Perform") = <<>>

\* The fold the claim states: the last option applied to the fold of the others.
RECURSIVE LeftFold(_, _)
LeftFold(opts, seed) ==
    IF opts = <<>> THEN seed
    ELSE ApplyOpt(opts[Len(opts)], LeftFold(SubSeq(opts, 1, Len(opts) - 1), seed))

\* C10: when a pending batch is applied, the configuration is the left-to-right
\* fold of the batch over a configuration seeded with the window's current
\* Decorations.Enabled, and the decoration height handed to the driver is zero
\* when the folded flag is false and Decorations.Height otherwise.
C10_ConfigFold ==
    [][Len(options') < Len(options) =>
          LET opts   == Head(options)
              expect == LeftFold(opts, [Decorated |-> decoEnabled, Title |-> 0,
                                        DecoHeight |-> 0])
              given  == CallsOf(NewCalls, "Configure")
          IN /\ cnf' = expect
             /\ Len(given) = 1
             /\ given[1].arg[Len(given[1].arg)] =
                    DecoHeightOpt(IF expect.Decorated THEN decoHeight ELSE 0)]_vars

\* A batch whose order matters was applied to a window with decorations of
\* height 1: they end up disabled and the driver is handed height zero.
C10_Witness ==
    /\ Returned
    /\ decoHeight = 1
    /\ CallsOf(calls, "Configure") # <<>>
    /\ CallsOf(calls, "Configure")[1].arg =
           <<(<<"Decorated", 1>>), (<<"Decorated", 0>>), DecoHeightOpt(0)>>
    /\ cnf = [Decorated |-> FALSE, Title |-> 0, DecoHeight |-> 0]
    /\ ~decoEnabled

C19_ConfigureArguments ==
    [][Len(options') < Len(options) =>
          LET opts == Head(options)
              conf == CallsOf(NewCalls, "Configure")
              flag == LeftFold(opts, [Decorated |-> decoEnabled, Title |-> 0,
                                      DecoHeight |-> 0]).Decorated
          IN /\ Len(conf) = 1
             /\ decoEnabled' = flag
             /\ Len(conf[1].arg) = Len(opts) + 1
             /\ SubSeq(conf[1].arg, 1, Len(opts)) = opts
             /\ conf[1].arg[Len(opts) + 1][1] = "DecoHeight"
             /\ conf[1].arg[Len(opts) + 1][2] = (IF decoEnabled' THEN decoHeight ELSE 0)
             /\ actions # <<>> => Len(CallsOf(NewCalls, "Perform")) = 1
             /\ \A i, j \in DOMAIN NewCalls :
                   (NewCalls[i].op = "Configure" /\ NewCalls[j].op = "Perform") => i < j]_vars

\* A wake-up cycle consumed a batch of two options and an Actions batch: the
\* window is now decorated and Configure was called before Perform.
C19_Witness ==
    /\ Returned
    /\ decoEnabled
    /\ decoHeight = 1
    /\ Len(calls) >= 2
    /\ calls[Len(calls)].op = "Perform"
    /\ calls[Len(calls) - 2].op = "Configure"
    /\ calls[Len(calls) - 2].arg =
           <<(<<"Title", 1>>), (<<"Decorated", 1>>), DecoHeightOpt(1)>>

\* C18: a drain is never cancelled. Destroy is polled at most once in a
\* cycle, only when every submitted event has been handed to ProcessEvent and
\* the queue is empty, and a call that returns after Destroy became ready
\* during its drain has still processed every event submitted in the cycle.
C18_DrainNeverCancelled ==
    /\ Len(CallsOf(calls, "SelectDestroy")) <= 1
    /\ \A i \in DOMAIN calls :
          calls[i].op = "SelectDestroy" =>
             /\ Len(CallsOf(SubSeq(calls, 1, i), "ProcessEventReturn")) = Len(submitted)
             /\ \A j \in (i + 1)..Len(calls) : calls[j].op # "ProcessEvent"
    /\ (stack # <<>> /\ teardownAt # NoTeardown) =>
          (Top.pc = "post" => (waitEvents = <<>> /\ Processed = submitted))
    /\ (Returned /\ teardownAt # NoTeardown) =>
          (Processed = submitted /\ SawTeardown)

\* Destroy became ready after the first of three events had been handed to
\* ProcessEvent; the call returned with all three processed.
C18_Witness ==
    /\ Returned
    /\ teardownAt = 1
    /\ Len(submitted) = 3
    /\ Processed = submitted
    /\ SawTeardown

\* The runes of a string: the number of encoded runes it is made of.
RunesOf(text) ==
    CHOOSE k \in 0..MaxText : \E ss \in [1..k -> RuneBytes] : Flatten(ss) = text

\* C12: an EditorInsert call with a driver bound passes to Event, in this
\* order, the EditEvent of the selection it found and the text, the
\* SnippetEvent of the snippet range the edit left, and the SelectionEvent of
\* the collapsed range; each is handed to ProcessEvent at the place in the
\* queue it was submitted to, behind every event pending then, and all three
\* have been handed over when the outermost call has returned.
C12_InsertEventOrder ==
    (ins.open /\ ~panicked) =>
        LET low == IF ins.sel.Start <= ins.sel.End THEN ins.sel.Start ELSE ins.sel.End
            p == low + RunesOf(ins.text)
            all == <<EditEvent(ins.sel, ins.text), SnippetEvent(ins.snippet),
                     SelectionEvent(Range(p, p))>>
            n == Len(ins.events)
        IN  /\ n \in 1..3
            /\ Len(ins.at) = n
            /\ \A k \in 1..n :
                 /\ ins.events[k] = all[k]
                 /\ k > 1 => ins.at[k - 1] < ins.at[k]
                 /\ ins.at[k] <= Len(delivered) => delivered[ins.at[k]] = ins.events[k]
            /\ ins.nested => n = 3 /\ ins.at[3] = ins.at[1] + 2
            /\ (stack = <<>> /\ ime.pc \in {"idle", "last"}) =>
                 (n = 3 /\ ins.at[3] <= Len(delivered))

\* EditorInsert was called from inside ProcessEvent with one event pending:
\* its three events were handed to ProcessEvent third to fifth.
C12_Witness ==
    /\ ins.open
    /\ ins.nested
    /\ ~panicked
    /\ stack = <<>>
    /\ ins.at = <<3, 4, 5>>
    /\ ins.snippet = Range(0, 1)
    /\ delivered = <<KeyEvent, KeyEvent>> \o
                   <<EditEvent(Range(0, 0), <<195, 169>>), SnippetEvent(Range(0, 1)),
                     SelectionEvent(Range(1, 1))>>

\* C13: once EditorInsert has stored the new selection, and until another
\* call writes the selection, Selection.Range is (p, p) with p the smaller
\* end of the selection the call found plus the number of runes of the text.
C13_InsertSelection ==
    (ins.open /\ Len(ins.events) = 3 /\ ~ins.touched /\ ~panicked) =>
        LET low == IF ins.sel.Start <= ins.sel.End THEN ins.sel.Start ELSE ins.sel.End
            p == low + RunesOf(ins.text)
        IN  imeState.Selection = Range(p, p)

\* EditorInsert of the two-byte rune on the reversed selection (1, 0), called
\* from outside a drain, has returned: the selection is (1, 1).
C13_Witness ==
    /\ ins.open
    /\ ~ins.nested
    /\ ~ins.touched
    /\ ~panicked
    /\ stack = <<>>
    /\ ime.pc = "last"
    /\ ins.sel = Range(1, 0)
    /\ ins.text = <<195, 169>>
    /\ imeState.Selection = Range(1, 1)

\* C14: of two SetEditorSnippet calls in a row with one range r that is not
\* the snippet range before the first, the first stores r and submits one
\* SnippetEvent and the second submits none.
C14_SecondCallNoOp ==
    (snip.n = 2 /\ snip.before # snip.r /\ ~panicked) =>
        /\ snip.events = 1
        /\ imeState.Snippet = snip.r

\* C15: SetEditorSelection(r) stores r as given, reversed or not, and submits
\* one SelectionEvent of r: the event is appended to waitEvents and is the
\* only event the call adds to the cycle.
C15_SelectionStoredAsGiven ==
    [][\A r \in Ranges :
         (SetEditorSelection(r) /\ ~panicked') =>
            /\ imeState'.Selection = r
            /\ imeState'.Compose = imeState.Compose
            /\ imeState'.Snippet = imeState.Snippet
            /\ submitted' = (IF stack = <<>> THEN <<>> ELSE submitted) \o <<SelectionEvent(r)>>
            /\ waitEvents' = Append(waitEvents, SelectionEvent(r))]_vars

\* SetEditorSelection((1, 0)) was called from outside a drain and has
\* returned: the reversed range is stored and its event was processed.
C15_Witness ==
    /\ stack = <<>>
    /\ ~panicked
    /\ ime.op = "SetEditorSelection"
    /\ imeState.Selection = Range(1, 0)
    /\ submitted = <<SelectionEvent(Range(1, 0))>>
    /\ Processed = submitted

\* C16: SetComposingRegion(r) sets Compose to r and nothing else: no event is
\* submitted, ProcessEvent is not called, and Selection, Snippet, waitEvents,
\* busy and the driver stay as they were, with a driver bound or not.
C16_ComposeOnly ==
    [][\A r \in Ranges :
         SetComposingRegion(r) =>
            /\ imeState'.Compose = r
            /\ imeState'.Selection = imeState.Selection
            /\ imeState'.Snippet = imeState.Snippet
            /\ UNCHANGED <<d, busy, waitEvents, submitted, calls, stack, panicked, result>>]_vars

\* SetComposingRegion((1, 0)) was called with no driver bound: no panic, no
\* event, and the region is stored.
C16_Witness ==
    /\ d = Nil
    /\ ~panicked
    /\ imeState.Compose = Range(1, 0)
    /\ imeState.Selection = Range(0, 0)
    /\ submitted = <<>>
    /\ calls = <<>>
    /\ waitEvents = <<>>

\* C17: AppendSemanticDiffs returns the accumulator as it was handed over when
\* no previous tree exists after the rebuild; when one exists the comparison
\* starts at its first entry and the accumulator handed over is the start of
\* the one returned, entry for entry.
C17_DiffsOnlyAppended ==
    sem.n > 0 =>
        /\ prevTree = <<>> => (sem.ret = sem.arg /\ sem.start = <<>>)
        /\ prevTree # <<>> =>
             /\ sem.start = <<Head(prevTree)>>
             /\ Len(sem.ret) >= Len(sem.arg)
             /\ SubSeq(sem.ret, 1, Len(sem.arg)) = sem.arg

\* A call with the accumulator <<1, 2>> and the previous tree <<2, 1>>: the
\* comparison started at node 2 and the ID 1 was appended.
C17_Witness ==
    /\ sem.n > 0
    /\ prevTree = <<2, 1>>
    /\ sem.start = <<2>>
    /\ sem.arg = <<1, 2>>
    /\ sem.ret = <<1, 2, 1>>

====
